---- MODULE Spec2Model ----
(***************************************************************************)
(* A model of src/vm.c: a root stack of object pointers, an intrusive      *)
(* allocation list, and a mark-and-sweep collector run from the allocator. *)
(*                                                                         *)
(* Memory is a function from addresses to cells.  A pointer is an address, *)
(* NULL, or Uninit (memory that malloc returned and nobody wrote).  A      *)
(* whole call of the C API is one action; the collector is also modelled   *)
(* statement by statement (SpecGC) where its termination is the question.  *)
(***************************************************************************)
EXTENDS Integers, Sequences, FiniteSets, TLC

\* ---------------------------------------------------------------- constants
STACK_MAX == 256
INITIAL_GC_THRESHHOLD == 100
OBJ_INT == 0
OBJ_PAIR == 1
NULL == 0
\* the exit status both fatal paths pass to exit()
EXIT_FAILURE_STATUS == 1

\* A value nobody wrote: malloc'ed memory, and the union member that is not
\* the object's variant.  The program never reads one.
Uninit == -1
\* The process has not called exit().
Running == -1

\* sweep's cursor `object` is the address of a pointer: of vm->firstObject
\* (FirstLink) or of some object's next field (that object's address).
FirstLink == 0

OverflowMsg == "Stack overflow!\n"
UnderflowMsg == "Stack underflow!\n"

\* ------------------------------------------------------------------- bounds
\* addresses malloc can hand out in Spec and SpecAlloc
MaxAddr == 4
\* pushInt's argument ranges over 0..MaxValue
MaxValue == 0
\* Spec starts from newVM, or with k <= MaxWarm survivors of a first cycle
MaxWarm == 1
\* SpecStack: calls made on each initial stack
MaxCalls == 3
\* SpecGC: objects in the heap gc() is run on, and root-stack slots in use
MaxObjs == 2
MaxRoots == 2
MaxList == 5

VARIABLES
    vm,        \* the VM struct: firstObject, stack, stackSize, numObjects, maxObjects
    heap,      \* memory: address -> Object cell, FreeCell where nothing is allocated
    exit,      \* Running, or the status passed to exit()
    stderr,    \* the diagnostics written to stderr, in order
    call,      \* the API call that produced this state, with what it returned
    pending,   \* objects left by the last cycle if no newObject call began since
    history,   \* SpecStack: the last two calls, each with the VM it was made on;
               \* SpecDemo: the pointers pop returned
    pc,        \* SpecDemo, SpecStack: calls made so far; SpecGC: gc's statement
    loc,       \* SpecGC: the locals of gc, markAll, mark and sweep
    obs        \* SpecGC: the VM and heap gc was called on, and counts of what
               \* ran: marks[a], frees[a] (bit set, free() called, per object),
               \* calls of mark, iterations of sweep's loop, statements

vars == <<vm, heap, exit, stderr, call, pending, history, pc, loc, obs>>

\* ------------------------------------------------------------------ objects
FreeCell == [type |-> Uninit, value |-> Uninit, head |-> Uninit, tail |-> Uninit,
             next |-> Uninit, marked |-> Uninit]

Allocated(h) == {a \in DOMAIN h : h[a] # FreeCell}
FreeAddrs(h) == {a \in DOMAIN h : h[a] = FreeCell}

\* The nodes of the allocation list, firstObject first.
RECURSIVE ListFrom(_, _, _)
ListFrom(h, o, fuel) ==
    IF o = NULL \/ fuel = 0 THEN <<>>
    ELSE <<o>> \o ListFrom(h, h[o].next, fuel - 1)

AllocList(v, h) == ListFrom(h, v.firstObject, Cardinality(DOMAIN h))

Range(s) == {s[i] : i \in 1..Len(s)}

\* ---------------------------------------------------------------- the calls
\* Every C function maps a world to a world: the VM, the heap and the process
\* (exit, stderr), with ret the last return value, gcRan whether gc() was
\* called, freed the addresses passed to free(), live the count gc() left and
\* object the cursor of sweep.
World(v, h) ==
    [vm |-> v, heap |-> h, exit |-> Running, stderr |-> <<>>,
     ret |-> NULL, gcRan |-> FALSE, freed |-> {}, live |-> Uninit,
     object |-> FirstLink]

\* vm->stack holds the slots written so far; the others are as malloc left
\* them.  Slot reads a slot, Poke writes one.
NoSlots == [i \in {} |-> Uninit]
Slot(stack, i) == IF i \in DOMAIN stack THEN stack[i] ELSE Uninit
Poke(stack, i, value) ==
    [j \in DOMAIN stack \cup {i} |-> IF j = i THEN value ELSE stack[j]]

\* Statement sequencing: F runs on the world e leaves, unless e called exit().
\* x ranges over the one value of e, so e is evaluated once.
Then(e, F(_)) ==
    CHOOSE r \in {IF x.exit # Running THEN x ELSE F(x) : x \in {e}} : TRUE

newVM ==
    [firstObject |-> NULL,
     stack |-> NoSlots,
     stackSize |-> 0,
     numObjects |-> 0,
     maxObjects |-> INITIAL_GC_THRESHHOLD]

\* push with the bound test off by one
pushOffByOne(w, value) ==
    IF w.vm.stackSize > STACK_MAX
    THEN [w EXCEPT !.stderr = Append(@, OverflowMsg), !.exit = EXIT_FAILURE_STATUS]
    ELSE [w EXCEPT !.vm.stack = Poke(@, w.vm.stackSize, value),
                   !.vm.stackSize = @ + 1]

\* push that increments stackSize before it stores
pushPreIncrement(w, value) ==
    IF w.vm.stackSize >= STACK_MAX
    THEN [w EXCEPT !.stderr = Append(@, OverflowMsg), !.exit = EXIT_FAILURE_STATUS]
    ELSE [w EXCEPT !.vm.stack = Poke(@, w.vm.stackSize + 1, value),
                   !.vm.stackSize = @ + 1]

push(w, value) ==
    IF w.vm.stackSize >= STACK_MAX
    THEN [w EXCEPT !.stderr = Append(@, OverflowMsg), !.exit = EXIT_FAILURE_STATUS]
    ELSE [w EXCEPT !.vm.stack = Poke(@, w.vm.stackSize, value),
                   !.vm.stackSize = @ + 1]

\* pop that also clears the slot it leaves
popClearsSlot(w) ==
    IF w.vm.stackSize = 0
    THEN [w EXCEPT !.stderr = Append(@, UnderflowMsg), !.exit = EXIT_FAILURE_STATUS]
    ELSE [w EXCEPT !.vm.stackSize = @ - 1,
                   !.vm.stack = Poke(@, w.vm.stackSize - 1, NULL),
                   !.ret = Slot(w.vm.stack, w.vm.stackSize - 1)]

pop(w) ==
    IF w.vm.stackSize = 0
    THEN [w EXCEPT !.stderr = Append(@, UnderflowMsg), !.exit = EXIT_FAILURE_STATUS]
    ELSE [w EXCEPT !.vm.stackSize = @ - 1,
                   !.ret = Slot(w.vm.stack, w.vm.stackSize - 1)]

\* C's truth value of object->marked
isMarked(w, object) == w.heap[object].marked # 0

\* mark without its early return
markNeverReturnsEarly(w, object) == FALSE

\* mark's first statement: return if the object is marked already
markReturnsEarly(w, object) == isMarked(w, object)

\* mark that follows head only
markChildrenHeadOnly(w, object) ==
    IF w.heap[object].type = OBJ_PAIR THEN <<w.heap[object].head>> ELSE <<>>

\* the calls mark makes after it marked `object`, in order
markChildren(w, object) ==
    IF w.heap[object].type = OBJ_PAIR
    THEN <<w.heap[object].head, w.heap[object].tail>>
    ELSE <<>>

markSet(w, object) == [w EXCEPT !.heap[object].marked = 1]

RECURSIVE mark(_, _)
mark(w, object) ==
    IF markReturnsEarly(w, object) THEN w
    ELSE IF markChildren(w, object) = <<>> THEN markSet(w, object)
    ELSE Then(mark(markSet(w, object), markChildren(w, object)[1]),
              LAMBDA w1 : mark(w1, markChildren(w, object)[2]))

\* markAll's loop for i = lo, lo + 1, ... while i < hi and i < vm->stackSize.
\* The range is split in halves so that the evaluation nests log(hi - lo) deep.
RECURSIVE markAllFor(_, _, _)
markAllFor(w, lo, hi) ==
    IF lo >= hi \/ ~(lo < w.vm.stackSize) THEN w
    ELSE IF hi = lo + 1 THEN mark(w, Slot(w.vm.stack, lo))
    ELSE LET mid == (lo + hi) \div 2
         IN  Then(markAllFor(w, lo, mid), LAMBDA w1 : markAllFor(w1, mid, hi))

\* markAll that starts at the second slot
markAllFromOne(w) == markAllFor(w, 1, STACK_MAX)

markAll(w) == markAllFor(w, 0, STACK_MAX)

Deref(w, object) ==
    IF object = FirstLink THEN w.vm.firstObject ELSE w.heap[object].next
Store(w, object, p) ==
    IF object = FirstLink THEN [w EXCEPT !.vm.firstObject = p]
    ELSE [w EXCEPT !.heap[object].next = p]

\* sweep that frees without counting
sweepUnlinkNoCount(w, object) ==
    LET unreached == Deref(w, object)
        w1 == Store(w, object, w.heap[unreached].next)
    IN  [w1 EXCEPT !.heap[unreached] = FreeCell,
                   !.freed = @ \cup {unreached}]

sweepUnlink(w, object) ==
    LET unreached == Deref(w, object)
        w1 == Store(w, object, w.heap[unreached].next)
    IN  [w1 EXCEPT !.heap[unreached] = FreeCell,
                   !.freed = @ \cup {unreached},
                   !.vm.numObjects = @ - 1]

\* sweep that leaves the bit of a survivor set
sweepKeepMarked(w, object) == w

sweepKeep(w, object) == [w EXCEPT !.heap[Deref(w, object)].marked = 0]

\* sweep that steps past the node that follows the one it unlinked
sweepBodySkipsNext(w) ==
    IF ~isMarked(w, Deref(w, w.object))
    THEN LET w1 == sweepUnlink(w, w.object)
         IN  IF Deref(w1, w1.object) = NULL THEN w1
             ELSE [w1 EXCEPT !.object = Deref(w1, w1.object)]
    ELSE [sweepKeep(w, w.object) EXCEPT !.object = Deref(w, w.object)]

\* One iteration of sweep's while loop, the cursor `object` kept in the world.
sweepBody(w) ==
    IF ~isMarked(w, Deref(w, w.object))
    THEN sweepUnlink(w, w.object)
    ELSE [sweepKeep(w, w.object) EXCEPT !.object = Deref(w, w.object)]

\* Up to n iterations of the loop, stopping when *object is NULL; split in
\* halves like markAllFor.
RECURSIVE sweepWhile(_, _)
sweepWhile(w, n) ==
    IF n = 0 \/ Deref(w, w.object) = NULL THEN w
    ELSE IF n = 1 THEN sweepBody(w)
    ELSE Then(sweepWhile(w, n \div 2),
              LAMBDA w1 : sweepWhile(w1, n - (n \div 2)))

\* The loop visits each node of the list once: at most one per memory cell.
sweep(w) ==
    sweepWhile([w EXCEPT !.object = FirstLink], Cardinality(DOMAIN w.heap))

\* a threshold that never drops to zero
gcThresholdGuarded(after) ==
    IF after = 0 THEN INITIAL_GC_THRESHHOLD ELSE after * 2

gcThreshold(after) == after * 2

gc(w) ==
    Then(markAll(w), LAMBDA w1 :
    Then(sweep(w1), LAMBDA w2 :
         [w2 EXCEPT !.vm.maxObjects = gcThreshold(w2.vm.numObjects),
                    !.gcRan = TRUE,
                    !.live = w2.vm.numObjects]))

\* the collection test as "at or above"
gcDueAtLeast(v) == v.numObjects >= v.maxObjects

gcDue(v) == v.numObjects = v.maxObjects

\* newObject up to its malloc: the collection, if it is due.
newObjectCollect(w) == IF gcDue(w.vm) THEN gc(w) ELSE w

\* malloc is first-fit: the lowest free address, NULL when memory is full.
malloc(h) ==
    IF FreeAddrs(h) = {} THEN NULL
    ELSE CHOOSE a \in FreeAddrs(h) : \A b \in FreeAddrs(h) : a <= b

\* newObject that also roots the object
newObjectLinkRooted(w, type) ==
    Then([w EXCEPT !.ret = malloc(w.heap)], LAMBDA w1 :
         [w1 EXCEPT !.heap[w1.ret] = [FreeCell EXCEPT !.type = type,
                                                      !.marked = 0,
                                                      !.next = w1.vm.firstObject],
                    !.vm.firstObject = w1.ret,
                    !.vm.numObjects = @ + 1,
                    !.vm.stack = Poke(@, w1.vm.stackSize, w1.ret),
                    !.vm.stackSize = @ + 1])

\* newObject that links without counting
newObjectLinkUncounted(w, type) ==
    Then([w EXCEPT !.ret = malloc(w.heap)], LAMBDA w1 :
         [w1 EXCEPT !.heap[w1.ret] = [FreeCell EXCEPT !.type = type,
                                                      !.marked = 0,
                                                      !.next = w1.vm.firstObject],
                    !.vm.firstObject = w1.ret])

\* newObject from its malloc on.
newObjectLink(w, type) ==
    Then([w EXCEPT !.ret = malloc(w.heap)], LAMBDA w1 :
         [w1 EXCEPT !.heap[w1.ret] = [FreeCell EXCEPT !.type = type,
                                                      !.marked = 0,
                                                      !.next = w1.vm.firstObject],
                    !.vm.firstObject = w1.ret,
                    !.vm.numObjects = @ + 1])

newObject(w, type) ==
    Then(newObjectCollect(w), LAMBDA w1 : newObjectLink(w1, type))

\* newObject dereferences what malloc returned: memory must not be full.
CanAllocate(w) == malloc(newObjectCollect(w).heap) # NULL

pushInt(w, intValue) ==
    Then(newObject(w, OBJ_INT), LAMBDA w1 :
    Then([w1 EXCEPT !.heap[w1.ret].value = intValue], LAMBDA w2 :
         push(w2, w1.ret)))

\* pushPair that pops its operands before it allocates
pushPairPopsFirst(w) ==
    Then(pop(w), LAMBDA w1 :
    Then(pop(w1), LAMBDA w2 :
    Then(newObject(w2, OBJ_PAIR), LAMBDA w3 :
    Then([w3 EXCEPT !.heap[w3.ret].tail = w1.ret,
                    !.heap[w3.ret].head = w2.ret], LAMBDA w4 :
    Then(push(w4, w3.ret), LAMBDA w5 :
         [w5 EXCEPT !.ret = w3.ret])))))

pushPair(w) ==
    Then(newObject(w, OBJ_PAIR), LAMBDA w1 :
    Then(pop(w1), LAMBDA w2 :
    Then([w2 EXCEPT !.heap[w1.ret].tail = w2.ret], LAMBDA w3 :
    Then(pop(w3), LAMBDA w4 :
    Then([w4 EXCEPT !.heap[w1.ret].head = w4.ret], LAMBDA w5 :
    Then(push(w5, w1.ret), LAMBDA w6 :
         [w6 EXCEPT !.ret = w1.ret]))))))

\* ------------------------------------------------------------------ actions
Here == World(vm, heap)

AllocOps == {"newObject", "pushInt", "pushPair"}

Return(e, op, arg) ==
    \E w \in {e} :
    /\ vm' = w.vm
    /\ heap' = w.heap
    /\ exit' = w.exit
    /\ stderr' = stderr \o w.stderr
    /\ call' = [op |-> op, arg |-> arg, ret |-> w.ret, gcRan |-> w.gcRan,
                freed |-> w.freed, live |-> w.live]
    /\ pending' = IF w.gcRan THEN w.live
                  ELSE IF op \in AllocOps THEN Uninit ELSE pending

NoCall ==
    [op |-> "newVM", arg |-> NULL, ret |-> NULL, gcRan |-> FALSE,
     freed |-> {}, live |-> Uninit]

NoLocals == [i |-> 0, frames |-> <<>>, object |-> FirstLink]
NoObs == [vm |-> <<>>, heap |-> <<>>, marks |-> <<>>, frees |-> <<>>,
          calls |-> 0, iters |-> 0, steps |-> 0]

PushInt ==
    /\ exit = Running
    /\ CanAllocate(Here)
    /\ \E intValue \in 0..MaxValue :
          Return(pushInt(Here, intValue), "pushInt", intValue)
    /\ UNCHANGED <<history, pc, loc, obs>>

PushPair ==
    /\ exit = Running
    /\ CanAllocate(Here)
    /\ Return(pushPair(Here), "pushPair", NULL)
    /\ UNCHANGED <<history, pc, loc, obs>>

Pop ==
    /\ exit = Running
    /\ Return(pop(Here), "pop", NULL)
    /\ UNCHANGED <<history, pc, loc, obs>>

\* The host allocates without rooting the object.
NewObject ==
    /\ exit = Running
    /\ CanAllocate(Here)
    /\ \E type \in {OBJ_INT, OBJ_PAIR} :
          Return(newObject(Here, type), "newObject", type)
    /\ UNCHANGED <<history, pc, loc, obs>>

\* ------------------------------------------------------------ initial states
\* The heap of k + 1 scalars left by newVM; 100 pushInt; 100 - k pop; pushInt:
\* the last pushInt collects, k objects survive and the threshold becomes 2k.
\* The stale pointers in the slots above stackSize, which nobody reads, are
\* left out.
WarmHeap(k, val) ==
    [a \in 1..MaxAddr |->
        IF a <= k + 1
        THEN [FreeCell EXCEPT !.type = OBJ_INT, !.marked = 0, !.value = val[a],
                              !.next = a - 1]
        ELSE FreeCell]

WarmVM(k) ==
    [newVM EXCEPT !.firstObject = k + 1,
                  !.stack = [i \in 0..k |-> i + 1],
                  !.stackSize = k + 1,
                  !.numObjects = k + 1,
                  !.maxObjects = gcThreshold(k)]

InitProcess ==
    /\ exit = Running
    /\ stderr = <<>>
    /\ call = NoCall
    /\ history = <<>>
    /\ pc = 0
    /\ loc = NoLocals
    /\ obs = NoObs

InitFresh ==
    /\ vm = newVM
    /\ heap = [a \in 1..MaxAddr |-> FreeCell]
    /\ pending = Uninit

InitWarm ==
    \E k \in 0..MaxWarm :
       \E val \in [1..(k + 1) -> 0..MaxValue] :
          /\ k + 1 <= MaxAddr
          /\ vm = WarmVM(k)
          /\ heap = WarmHeap(k, val)
          /\ pending = k

Init ==
    /\ InitFresh \/ InitWarm
    /\ InitProcess

Next == PushInt \/ PushPair \/ Pop

Spec == Init /\ [][Next]_vars

NextAlloc == PushInt \/ PushPair \/ Pop \/ NewObject

SpecAlloc == Init /\ [][NextAlloc]_vars

\* ---------------------------------------------------------------- SpecStack
\* push and pop on root stacks of every size 0..STACK_MAX.  Two scalars are
\* allocated (pushInt twice on a new VM) and the host has pushed them in turn
\* until the stack holds n slots; then it makes up to MaxCalls calls.
StackRefs == {1, 2}

StackHeap ==
    [a \in StackRefs |->
        [FreeCell EXCEPT !.type = OBJ_INT, !.marked = 0, !.value = 0,
                         !.next = a - 1]]

StackVM(n) ==
    [newVM EXCEPT !.firstObject = 2,
                  !.stack = [i \in 0..(n - 1) |-> 1 + (i % 2)],
                  !.stackSize = n,
                  !.numObjects = 2]

InitStack ==
    /\ \E n \in 0..STACK_MAX : vm = StackVM(n)
    /\ heap = StackHeap
    /\ pending = Uninit
    /\ InitProcess

Remember(op, arg) ==
    history' = <<[op |-> op, arg |-> arg, vm |-> vm]>>
                  \o (IF history = <<>> THEN <<>> ELSE <<history[1]>>)

StackPush ==
    /\ exit = Running
    /\ pc < MaxCalls
    /\ \E value \in StackRefs :
          /\ Return(push(Here, value), "push", value)
          /\ Remember("push", value)
    /\ pc' = pc + 1
    /\ UNCHANGED <<loc, obs>>

StackPop ==
    /\ exit = Running
    /\ pc < MaxCalls
    /\ Return(pop(Here), "pop", NULL)
    /\ Remember("pop", NULL)
    /\ pc' = pc + 1
    /\ UNCHANGED <<loc, obs>>

NextStack == StackPush \/ StackPop

SpecStack == InitStack /\ [][NextStack]_vars

\* The exit status each fatal condition ends the process with: push on a full
\* stack, pop on an empty one.
OverflowStatus == push(World(StackVM(STACK_MAX), StackHeap), 1).exit
UnderflowStatus == pop(World(StackVM(0), StackHeap)).exit

\* ----------------------------------------------------------------- SpecDemo
\* main(): 80 pushInt, 10 pop, 21 pushInt.  pc counts the calls made.
DemoFirstPushes == 80
DemoPops == 10
DemoLastPushes == 21
DemoCalls == DemoFirstPushes + DemoPops + DemoLastPushes
\* main never holds more than INITIAL_GC_THRESHHOLD objects at a malloc
DemoAddrs == 1..INITIAL_GC_THRESHHOLD

InitDemo ==
    /\ vm = newVM
    /\ heap = [a \in DemoAddrs |-> FreeCell]
    /\ pending = Uninit
    /\ InitProcess

DemoFirstLoop ==
    /\ exit = Running
    /\ pc < DemoFirstPushes
    /\ CanAllocate(Here)
    /\ Return(pushInt(Here, pc), "pushInt", pc)
    /\ pc' = pc + 1
    /\ UNCHANGED <<history, loc, obs>>

DemoPopLoop ==
    /\ exit = Running
    /\ DemoFirstPushes <= pc
    /\ pc < DemoFirstPushes + DemoPops
    /\ Return(pop(Here), "pop", NULL)
    /\ history' = Append(history, call'.ret)
    /\ pc' = pc + 1
    /\ UNCHANGED <<loc, obs>>

DemoLastLoop ==
    /\ exit = Running
    /\ DemoFirstPushes + DemoPops <= pc
    /\ pc < DemoCalls
    /\ CanAllocate(Here)
    /\ Return(pushInt(Here, pc - (DemoFirstPushes + DemoPops)), "pushInt",
              pc - (DemoFirstPushes + DemoPops))
    /\ pc' = pc + 1
    /\ UNCHANGED <<history, loc, obs>>

NextDemo == DemoFirstLoop \/ DemoPopLoop \/ DemoLastLoop

SpecDemo == InitDemo /\ [][NextDemo]_vars

\* ---------------------------------------------------------------- SpecDrain
\* A host that fills a new VM up to the first threshold, pops all but k of
\* its roots (k <= MaxWarm) and allocates again, so that the first collection
\* runs with k survivors; then it makes up to MaxCalls more pushInt calls.
\* pc counts the calls made.
DrainFills == INITIAL_GC_THRESHHOLD
DrainCollected == 2 * DrainFills + 1

InitDrain ==
    /\ vm = newVM
    /\ heap = [a \in DemoAddrs |-> FreeCell]
    /\ pending = Uninit
    /\ InitProcess

DrainFill ==
    /\ exit = Running
    /\ pc < DrainFills
    /\ CanAllocate(Here)
    /\ Return(pushInt(Here, 0), "pushInt", 0)
    /\ pc' = pc + 1
    /\ UNCHANGED <<history, loc, obs>>

DrainPop ==
    /\ exit = Running
    /\ DrainFills <= pc
    /\ pc < 2 * DrainFills
    /\ Return(pop(Here), "pop", NULL)
    /\ pc' = pc + 1
    /\ UNCHANGED <<history, loc, obs>>

\* the allocation that finds numObjects = maxObjects
DrainCollect ==
    /\ exit = Running
    /\ 2 * DrainFills - MaxWarm <= pc
    /\ pc <= 2 * DrainFills
    /\ CanAllocate(Here)
    /\ Return(pushInt(Here, 0), "pushInt", 0)
    /\ pc' = DrainCollected
    /\ UNCHANGED <<history, loc, obs>>

DrainMore ==
    /\ exit = Running
    /\ DrainCollected <= pc
    /\ pc < DrainCollected + MaxCalls
    /\ CanAllocate(Here)
    /\ Return(pushInt(Here, 0), "pushInt", 0)
    /\ pc' = pc + 1
    /\ UNCHANGED <<history, loc, obs>>

NextDrain == DrainFill \/ DrainPop \/ DrainCollect \/ DrainMore

SpecDrain == InitDrain /\ [][NextDrain]_vars

\* ------------------------------------------------------------------- SpecGC
\* gc() statement by statement, on every heap of up to MaxObjs objects: each
\* a scalar or a pair whose head and tail are any objects of the heap (cycles
\* and sharing included), every mark bit clear, linked in allocation order,
\* with up to MaxRoots slots of the root stack in use.
GcObject(a, shape) ==
    IF shape = <<>>
    THEN [FreeCell EXCEPT !.type = OBJ_INT, !.marked = 0, !.value = 0,
                          !.next = a - 1]
    ELSE [FreeCell EXCEPT !.type = OBJ_PAIR, !.marked = 0, !.head = shape[1],
                          !.tail = shape[2], !.next = a - 1]

GcShapes(n) == {<<>>} \cup ((1..n) \X (1..n))

InitGC ==
    /\ \E n \in 0..MaxObjs :
          /\ \E shape \in [1..n -> GcShapes(n)] :
                heap = [a \in 1..MaxObjs |->
                           IF a <= n THEN GcObject(a, shape[a]) ELSE FreeCell]
          /\ \E m \in 0..MaxRoots :
                \E roots \in [0..(m - 1) -> 1..n] :
                   vm = [newVM EXCEPT
                            !.firstObject = n,
                            !.stack = roots,
                            !.stackSize = m,
                            !.numObjects = n,
                            !.maxObjects = n]
    /\ exit = Running
    /\ stderr = <<>>
    /\ call = NoCall
    /\ pending = Uninit
    /\ history = <<>>
    /\ pc = "markAll"
    /\ loc = NoLocals
    /\ obs = [vm |-> vm, heap |-> heap,
              marks |-> [a \in DOMAIN heap |-> 0],
              frees |-> [a \in DOMAIN heap |-> 0],
              calls |-> 0, iters |-> 0, steps |-> 0]

GcHere == [World(vm, heap) EXCEPT !.object = loc.object]

GcStep(w) ==
    /\ vm' = w.vm
    /\ heap' = w.heap
    /\ UNCHANGED <<exit, stderr, call, pending, history>>

Top == loc.frames[Len(loc.frames)]
Callers == SubSeq(loc.frames, 1, Len(loc.frames) - 1)

\* markAll: the loop calls mark(vm->stack[i])
GcMarkAllCall ==
    /\ pc = "markAll"
    /\ loc.i < vm.stackSize
    /\ loc' = [loc EXCEPT !.frames = <<[object |-> Slot(vm.stack, loc.i), at |-> 0]>>]
    /\ obs' = [obs EXCEPT !.calls = @ + 1, !.steps = @ + 1]
    /\ pc' = "mark"
    /\ GcStep(GcHere)

\* markAll: the loop ends, gc calls sweep
GcMarkAllDone ==
    /\ pc = "markAll"
    /\ ~(loc.i < vm.stackSize)
    /\ loc' = [loc EXCEPT !.object = FirstLink]
    /\ pc' = "sweep"
    /\ obs' = [obs EXCEPT !.steps = @ + 1]
    /\ GcStep(GcHere)

\* a call of mark returns: to its caller, or to markAll's i++
GcReturn ==
    IF Callers = <<>>
    THEN /\ loc' = [loc EXCEPT !.frames = <<>>, !.i = @ + 1]
         /\ pc' = "markAll"
    ELSE /\ loc' = [loc EXCEPT !.frames = Callers]
         /\ pc' = "mark"

\* mark: the object is marked already
GcMarkSkip ==
    /\ pc = "mark"
    /\ Top.at = 0
    /\ markReturnsEarly(GcHere, Top.object)
    /\ GcReturn
    /\ obs' = [obs EXCEPT !.steps = @ + 1]
    /\ GcStep(GcHere)

\* mark: set the bit; a scalar returns, a pair goes on to its children
GcMarkSet ==
    /\ pc = "mark"
    /\ Top.at = 0
    /\ ~markReturnsEarly(GcHere, Top.object)
    /\ obs' = [obs EXCEPT !.marks[Top.object] = @ + 1, !.steps = @ + 1]
    /\ IF markChildren(GcHere, Top.object) = <<>>
       THEN GcReturn
       ELSE /\ loc' = [loc EXCEPT !.frames[Len(loc.frames)].at = 1]
            /\ pc' = "mark"
    /\ GcStep(markSet(GcHere, Top.object))

\* mark: the recursive call on the next child (head, then tail)
GcMarkChild ==
    /\ pc = "mark"
    /\ Top.at \in 1..Len(markChildren(GcHere, Top.object))
    /\ loc' = [loc EXCEPT
                  !.frames = Append([@ EXCEPT ![Len(@)].at = Top.at + 1],
                                    [object |-> markChildren(GcHere, Top.object)[Top.at],
                                     at |-> 0])]
    /\ obs' = [obs EXCEPT !.calls = @ + 1, !.steps = @ + 1]
    /\ pc' = "mark"
    /\ GcStep(GcHere)

\* mark: both children done
GcMarkEnd ==
    /\ pc = "mark"
    /\ Top.at > Len(markChildren(GcHere, Top.object))
    /\ GcReturn
    /\ obs' = [obs EXCEPT !.steps = @ + 1]
    /\ GcStep(GcHere)

\* sweep: one iteration of the while loop
GcSweepBody ==
    /\ pc = "sweep"
    /\ Deref(GcHere, loc.object) # NULL
    /\ \E w \in {sweepBody(GcHere)} :
          /\ loc' = [loc EXCEPT !.object = w.object]
          /\ obs' = [obs EXCEPT
                        !.iters = @ + 1,
                        !.steps = @ + 1,
                        !.frees = [a \in DOMAIN @ |->
                                      IF a \in w.freed THEN @[a] + 1 ELSE @[a]]]
          /\ GcStep(w)
    /\ pc' = "sweep"

\* sweep: *object is NULL, the loop ends
GcSweepDone ==
    /\ pc = "sweep"
    /\ Deref(GcHere, loc.object) = NULL
    /\ pc' = "threshold"
    /\ obs' = [obs EXCEPT !.steps = @ + 1]
    /\ UNCHANGED loc
    /\ GcStep(GcHere)

\* gc: vm->maxObjects = after * 2
GcThreshold ==
    /\ pc = "threshold"
    /\ pc' = "done"
    /\ obs' = [obs EXCEPT !.steps = @ + 1]
    /\ UNCHANGED loc
    /\ GcStep([GcHere EXCEPT !.vm.maxObjects = gcThreshold(vm.numObjects)])

NextGC ==
    \/ GcMarkAllCall \/ GcMarkAllDone
    \/ GcMarkSkip \/ GcMarkSet \/ GcMarkChild \/ GcMarkEnd
    \/ GcSweepBody \/ GcSweepDone
    \/ GcThreshold

SpecGC == InitGC /\ [][NextGC]_vars

\* ---------------------------------------------------------------- SpecSweep
\* sweep() statement by statement, on every allocation list of up to MaxList
\* nodes with every pattern of set and clear mark bits: what markAll can leave
\* and what it cannot.
InitSweep ==
    /\ \E n \in 0..MaxList :
          \E bits \in [1..n -> {0, 1}] :
             /\ heap = [a \in 1..MaxList |->
                           IF a <= n
                           THEN [GcObject(a, <<>>) EXCEPT !.marked = bits[a]]
                           ELSE FreeCell]
             /\ vm = [newVM EXCEPT !.firstObject = n,
                                   !.numObjects = n,
                                   !.maxObjects = n]
    /\ exit = Running
    /\ stderr = <<>>
    /\ call = NoCall
    /\ pending = Uninit
    /\ history = <<>>
    /\ pc = "sweep"
    /\ loc = NoLocals
    /\ obs = [vm |-> vm, heap |-> heap,
              marks |-> [a \in DOMAIN heap |-> 0],
              frees |-> [a \in DOMAIN heap |-> 0],
              calls |-> 0, iters |-> 0, steps |-> 0]

NextSweep == GcSweepBody \/ GcSweepDone \/ GcThreshold

SpecSweep == InitSweep /\ [][NextSweep]_vars

\* ------------------------------------------------------------ reachability
Roots(v) == {Slot(v.stack, i) : i \in 0..(v.stackSize - 1)}

RECURSIVE Closure(_, _)
Closure(h, S) ==
    LET T == S \cup UNION {{h[a].head, h[a].tail} :
                              a \in {b \in S : h[b].type = OBJ_PAIR}}
    IN  IF T = S THEN S ELSE Closure(h, T)

\* The objects reachable from the root-stack slots in use through pairs.
Reachable(v, h) == Closure(h, Roots(v))

Pairs(h) == {a \in Allocated(h) : h[a].type = OBJ_PAIR}

\* Object a is as it was in heap h0, mark bit and list link aside.
SameObject(h, h0, a) ==
    /\ h[a].type = h0[a].type
    /\ h[a].value = h0[a].value
    /\ h[a].head = h0[a].head
    /\ h[a].tail = h0[a].tail

\* =================================================================== claims

\* C1: after a collection cycle started with every mark bit clear, the
\* allocation list holds exactly the objects that were reachable from the
\* root stack through pair references, numObjects is their number, every one
\* of them is intact and every other object has been freed.
C1_ReachabilityExact ==
    pc = "done" =>
        LET R == Reachable(obs.vm, obs.heap)
        IN  /\ Range(AllocList(vm, heap)) = R
            /\ Len(AllocList(vm, heap)) = Cardinality(R)
            /\ vm.numObjects = Cardinality(R)
            /\ Allocated(heap) = R
            /\ \A a \in R : SameObject(heap, obs.heap, a)

\* a finished cycle that kept an object no root slot holds: it was reached
\* only through a pair
C1_Witness ==
    /\ pc = "done"
    /\ \E a \in Range(AllocList(vm, heap)) : a \notin Roots(obs.vm)

\* C3: when gc() returns, maxObjects is twice the numObjects the sweep left,
\* also when nothing is left.
C3_ThresholdTwiceLive ==
    pc = "done" => vm.maxObjects = 2 * vm.numObjects

\* a cycle that started with objects and left none
C3_Witness ==
    /\ pc = "done"
    /\ obs.vm.numObjects > 0
    /\ vm.numObjects = 0
    /\ vm.maxObjects = 0

\* C6: gc() terminates on every object graph.  Until gc returns a statement
\* can always run, and the statements run are bounded by the graph: mark is
\* called at most once per root slot and twice per pair, so a marked object
\* is never traversed again; the bit of an object is set at most once, and
\* once mark is over exactly the reachable objects had it set once; sweep's
\* loop runs once per node of the list and frees no object twice.
C6_StatementBound(v, h) ==
    5 * (v.stackSize + 2 * Cardinality(Pairs(h))) + v.numObjects + 3

\* C6: gc() always reaches its return within the statement bound, marking
\* each reachable object once and freeing no object twice.
C6_CollectionTerminates ==
    /\ pc # "done" => ENABLED NextGC
    /\ obs.calls <= obs.vm.stackSize + 2 * Cardinality(Pairs(obs.heap))
    /\ obs.iters <= obs.vm.numObjects
    /\ obs.steps <= C6_StatementBound(obs.vm, obs.heap)
    /\ Len(loc.frames) <= obs.vm.numObjects + 1
    /\ \A a \in DOMAIN obs.heap : obs.marks[a] <= 1 /\ obs.frees[a] <= 1
    /\ pc \in {"sweep", "threshold", "done"} =>
          \A a \in DOMAIN obs.heap :
             obs.marks[a] = IF a \in Reachable(obs.vm, obs.heap) THEN 1 ELSE 0
    /\ pc \in {"threshold", "done"} => obs.iters = obs.vm.numObjects

\* gc returned on a graph where two rooted pairs point at each other
C6_Witness ==
    /\ pc = "done"
    /\ \E a, b \in Reachable(obs.vm, obs.heap) :
          /\ a # b
          /\ obs.heap[a].type = OBJ_PAIR /\ obs.heap[a].head = b
          /\ obs.heap[b].type = OBJ_PAIR /\ obs.heap[b].tail = a

\* C2: a call of newObject (made directly, or by pushInt or pushPair) runs a
\* collection cycle exactly when numObjects = maxObjects at the call.  The
\* cycle is over before the object exists: it keeps what was reachable from
\* the root stack as the call found it, sets the threshold from that count,
\* and the new object is then linked first, unmarked and counted on top.
C2_Step ==
    call'.op \in AllocOps =>
        LET o == vm'.firstObject
            R == Reachable(vm, heap)
        IN  /\ call'.gcRan <=> vm.numObjects = vm.maxObjects
            /\ o \in Allocated(heap')
            /\ heap'[o].marked = 0
            /\ IF call'.gcRan
               THEN /\ o \notin R
                    /\ Allocated(heap') = R \cup {o}
                    /\ call'.live = Cardinality(R)
                    /\ vm'.maxObjects = 2 * call'.live
                    /\ vm'.numObjects = call'.live + 1
               ELSE /\ o \notin Allocated(heap)
                    /\ Allocated(heap') = Allocated(heap) \cup {o}
                    /\ call'.freed = {}
                    /\ vm'.maxObjects = vm.maxObjects
                    /\ vm'.numObjects = vm.numObjects + 1

\* C2: every step is a call that collects iff numObjects = maxObjects, the
\* cycle complete before the new object is linked.
C2_CollectsIffAtThreshold == [][C2_Step]_vars

\* an allocation that collected, freeing some objects and keeping others
C2_Witness ==
    /\ call.op \in AllocOps
    /\ call.gcRan
    /\ call.freed # {}
    /\ call.live > 0
    /\ vm.numObjects = call.live + 1

\* C4: push on a stack of STACK_MAX entries ends in the overflow error and pop
\* on an empty stack in the underflow error, the VM left as it was; any
\* other push stores its argument in the first unused slot and any other pop
\* takes the last used slot away, and the process goes on.
StackOverflow == exit # Running /\ stderr = <<OverflowMsg>>
StackUnderflow == exit # Running /\ stderr = <<UnderflowMsg>>

C4_Step ==
    /\ call'.op = "push" =>
          IF vm.stackSize = STACK_MAX
          THEN StackOverflow' /\ vm' = vm
          ELSE /\ exit' = Running /\ stderr' = <<>>
               /\ vm' = [vm EXCEPT !.stack = Poke(@, vm.stackSize, call'.arg),
                                   !.stackSize = vm.stackSize + 1]
    /\ call'.op = "pop" =>
          IF vm.stackSize = 0
          THEN StackUnderflow' /\ vm' = vm
          ELSE /\ exit' = Running /\ stderr' = <<>>
               /\ vm' = [vm EXCEPT !.stackSize = vm.stackSize - 1]

\* C4: every push and pop step respects the bounds 0 and STACK_MAX, failing
\* with its diagnostic and exit status and the VM untouched.
C4_StackBounds == [][C4_Step]_vars

\* a push that found the stack full
C4_Witness ==
    /\ call.op = "push"
    /\ StackOverflow
    /\ vm.stackSize = STACK_MAX

\* C5: in main's run no call before the last collects; the last pushInt finds
\* numObjects = maxObjects = 100 and collects, freeing exactly the ten objects
\* pop returned and leaving 90 with threshold 180; the run ends with 91
\* objects and 91 roots.
C5_DemoScenario ==
    /\ call.gcRan <=> pc = DemoCalls
    /\ exit = Running
    /\ pc <= DemoFirstPushes => vm.numObjects = pc /\ vm.stackSize = pc
    /\ pc < DemoCalls => vm.maxObjects = INITIAL_GC_THRESHHOLD
    /\ pc = DemoCalls - 1 =>
          /\ vm.numObjects = INITIAL_GC_THRESHHOLD
          /\ vm.stackSize = 90
          /\ Len(history) = DemoPops
    /\ pc = DemoCalls =>
          /\ call.freed = Range(history)
          /\ Cardinality(call.freed) = 10
          /\ call.live = 90
          /\ vm.maxObjects = 180
          /\ vm.numObjects = 91
          /\ vm.stackSize = 91

\* main has returned, its one cycle behind it
C5_Witness ==
    /\ pc = DemoCalls
    /\ call.gcRan
    /\ vm.numObjects = 91
    /\ vm.stackSize = 91

\* C7: a successful pop returns the top slot and changes stackSize alone: the
\* slots, the allocation list, the counters and every object stay as they
\* are, and nothing is collected or freed.
C7_Step ==
    (call'.op = "pop" /\ exit' = Running) =>
        /\ vm' = [vm EXCEPT !.stackSize = vm.stackSize - 1]
        /\ heap' = heap
        /\ call'.ret = Slot(vm.stack, vm.stackSize - 1)
        /\ ~call'.gcRan
        /\ call'.freed = {}

\* C7: every successful pop changes stackSize only.
C7_PopFrame == [][C7_Step]_vars

\* a popped object that nothing reaches any more, still allocated and counted
C7_Witness ==
    /\ call.op = "pop"
    /\ exit = Running
    /\ call.ret \in Allocated(heap)
    /\ call.ret \notin Reachable(vm, heap)
    /\ call.ret \in Range(AllocList(vm, heap))
    /\ vm.numObjects = Cardinality(Allocated(heap))

\* C8: when a cycle leaves no object the threshold is zero, and the next
\* call of newObject after that cycle runs a cycle.
C8_Step ==
    /\ (call'.gcRan /\ call'.live = 0) => vm'.maxObjects = 0
    /\ (pending = 0 /\ call'.op \in AllocOps) => call'.gcRan

\* C8: every allocation that follows a cycle with zero survivors collects.
C8_ZeroLiveForcesCollection == [][C8_Step]_vars

\* C9: a push that succeeds followed by a pop: the pop returns the pushed
\* reference and leaves stackSize and every slot in use as before the push.
C9_PushThenPop ==
    (/\ Len(history) = 2
     /\ history[2].op = "push"
     /\ history[1].op = "pop"
     /\ history[2].vm.stackSize < STACK_MAX) =>
        /\ exit = Running
        /\ call.ret = history[2].arg
        /\ vm.stackSize = history[2].vm.stackSize
        /\ \A i \in 0..(vm.stackSize - 1) :
              Slot(vm.stack, i) = Slot(history[2].vm.stack, i)

\* a push of a reference other than the one on top, then a pop
C9_Witness ==
    /\ Len(history) = 2
    /\ history[2].op = "push"
    /\ history[1].op = "pop"
    /\ history[2].vm.stackSize > 0
    /\ Slot(history[2].vm.stack, history[2].vm.stackSize - 1) # history[2].arg
    /\ call.ret = history[2].arg

\* C10: a direct call of newObject leaves the root stack as it is and the
\* threshold too unless it collected; the new object is unmarked, of the type
\* asked for, first in the allocation list with the list the collection left
\* behind it, and numObjects is one more than the objects that list holds.
C10_Step ==
    call'.op = "newObject" =>
        LET o == call'.ret
            rest == SelectSeq(AllocList(vm, heap), LAMBDA a : a \notin call'.freed)
        IN  /\ vm'.stack = vm.stack
            /\ vm'.stackSize = vm.stackSize
            /\ ~call'.gcRan => (vm'.maxObjects = vm.maxObjects /\ call'.freed = {})
            /\ heap'[o].type = call'.arg
            /\ heap'[o].marked = 0
            /\ vm'.firstObject = o
            /\ heap'[o].next = IF vm.numObjects = Cardinality(call'.freed)
                               THEN NULL ELSE rest[1]
            /\ AllocList(vm', heap') = <<o>> \o rest
            /\ vm'.numObjects = vm.numObjects - Cardinality(call'.freed) + 1
            /\ \A a \in Range(rest) : SameObject(heap', heap, a)

\* C10: every direct newObject call leaves the stack alone and links the
\* new object first, counted once.
C10_NewObjectFrame == [][C10_Step]_vars

\* a direct allocation that collected, with roots on the stack
C10_Witness ==
    /\ call.op = "newObject"
    /\ call.gcRan
    /\ vm.stackSize > 0
    /\ heap[call.ret].next # NULL
    /\ call.ret \notin Roots(vm)

\* The statement-by-statement run of gc ends in the world gc(w) computes.
GcAgrees ==
    pc = "done" =>
        LET w == gc(World(obs.vm, obs.heap))
        IN  vm = w.vm /\ heap = w.heap

\* C11: the two fatal stack conditions end the process with a non-zero exit
\* status of their own: a process that ended in push on a full stack has the
\* overflow diagnostic last on stderr and an exit status that is not the one
\* an underflow gives, and the other way round for pop on an empty stack.
C11_DistinctExitStatus ==
    exit # Running =>
        /\ exit # 0
        /\ stderr # <<>>
        /\ IF call.op = "push"
           THEN /\ stderr[Len(stderr)] = OverflowMsg
                /\ exit = OverflowStatus
                /\ exit # UnderflowStatus
           ELSE /\ stderr[Len(stderr)] = UnderflowMsg
                /\ exit = UnderflowStatus
                /\ exit # OverflowStatus

\* C12: between calls no object of the allocation list has its mark bit
\* set: newObject links every object unmarked and sweep clears the bit of
\* every survivor.
C12_MarksClearOutsideGc ==
    \A a \in Range(AllocList(vm, heap)) : heap[a].marked = 0

\* a call has just collected and left survivors
C12_Witness ==
    /\ exit = Running
    /\ call.gcRan
    /\ call.live > 0
    /\ Len(AllocList(vm, heap)) > call.live

\* the nodes of list L whose mark bit is set in heap h, in the order of L
MarkedOf(h, L) == SelectSeq(L, LAMBDA a : h[a].marked # 0)

\* C13: when sweep's loop is over, the allocation list is the subsequence of
\* the marked nodes of the list sweep was given, in the same order and ended
\* by NULL; every unmarked node has been freed, once, and numObjects is lower
\* by their number.
C13_SweepKeepsList ==
    pc \in {"threshold", "done"} =>
        LET before == AllocList(obs.vm, obs.heap)
            after == AllocList(vm, heap)
            unmarked == {a \in Range(before) : obs.heap[a].marked = 0}
        IN  /\ after = MarkedOf(obs.heap, before)
            /\ IF after = <<>> THEN vm.firstObject = NULL
               ELSE /\ vm.firstObject = after[1]
                    /\ heap[after[Len(after)]].next = NULL
            /\ vm.numObjects = obs.vm.numObjects - Cardinality(unmarked)
            /\ \A a \in DOMAIN heap :
                  obs.frees[a] = IF a \in unmarked THEN 1 ELSE 0
            /\ \A a \in unmarked : heap[a] = FreeCell
            /\ \A a \in Range(after) : SameObject(heap, obs.heap, a)

\* sweep is over on a list with unmarked nodes at the head, at the tail and two
\* in a row, and a marked node between them
C13_Witness ==
    /\ pc = "done"
    /\ LET before == AllocList(obs.vm, obs.heap)
           bit(i) == obs.heap[before[i]].marked
       IN  /\ Len(before) >= 4
           /\ bit(1) = 0
           /\ bit(Len(before)) = 0
           /\ \E i \in 1..(Len(before) - 1) : bit(i) = 0 /\ bit(i + 1) = 0
           /\ \E i \in 1..Len(before) : bit(i) = 1

\* C14: pushPair called with at least two entries on the stack returns a new
\* pair whose tail is the former top entry and whose head is the former
\* second entry; the two entries are replaced by the pair, so stackSize is
\* one lower and the entries below are as they were; the collection the
\* allocation may have run freed neither operand, and both are still in the
\* allocation list, intact.
C14_Step ==
    (call'.op = "pushPair" /\ vm.stackSize >= 2) =>
        LET pair == call'.ret
            top == Slot(vm.stack, vm.stackSize - 1)
            second == Slot(vm.stack, vm.stackSize - 2)
        IN  /\ exit' = Running
            /\ pair \notin (Allocated(heap) \ call'.freed)
            /\ pair = vm'.firstObject
            /\ heap'[pair].type = OBJ_PAIR
            /\ heap'[pair].tail = top
            /\ heap'[pair].head = second
            /\ vm'.stackSize = vm.stackSize - 1
            /\ Slot(vm'.stack, vm'.stackSize - 1) = pair
            /\ \A i \in 0..(vm.stackSize - 3) :
                  Slot(vm'.stack, i) = Slot(vm.stack, i)
            /\ \A a \in {top, second} :
                  /\ a \notin call'.freed
                  /\ a # pair
                  /\ a \in Range(AllocList(vm', heap'))
                  /\ SameObject(heap', heap, a)

\* C14: every pushPair step on a stack of two or more entries builds the
\* pair from the two top entries and keeps them alive.
C14_PushPair == [][C14_Step]_vars

\* pushPair has returned a pair of two different objects after its
\* allocation ran a collection that freed something
C14_Witness ==
    /\ exit = Running
    /\ call.op = "pushPair"
    /\ call.gcRan
    /\ call.freed # {}
    /\ heap[call.ret].head # heap[call.ret].tail
    /\ Slot(vm.stack, vm.stackSize - 1) = call.ret

\* The states InitWarm starts Spec from are the ones the program is in after
\* newVM, DrainFills pushInt, DrainFills - k pop and one more pushInt (the
\* stale slots above stackSize and the free memory above MaxAddr aside).
WarmAgrees ==
    pc = DrainCollected =>
        LET k == vm.stackSize - 1
        IN  /\ k \in 0..MaxWarm
            /\ [vm EXCEPT !.stack = [i \in 0..k |-> Slot(vm.stack, i)]] = WarmVM(k)
            /\ [a \in 1..MaxAddr |-> heap[a]] = WarmHeap(k, [a \in 1..(k + 1) |-> 0])
            /\ \A a \in DOMAIN heap : a > MaxAddr => heap[a] = FreeCell
            /\ pending = k

\* C15: collection keeps happening while the host keeps allocating.  Stated
\* by its variant: every allocation leaves numObjects at or below maxObjects,
\* and one that did not collect leaves maxObjects - numObjects lower than it
\* found it, so a collection runs within maxObjects - numObjects + 1
\* allocations from any state; and the collection, when it runs, frees every
\* object that was not reachable from the root stack.
C15_Step ==
    (call'.op \in AllocOps /\ exit' = Running) =>
        /\ vm'.numObjects <= vm'.maxObjects
        /\ ~call'.gcRan =>
              vm'.maxObjects - vm'.numObjects < vm.maxObjects - vm.numObjects
        /\ call'.gcRan =>
              Allocated(heap) \ Reachable(vm, heap) \subseteq call'.freed

\* C15: every allocation step keeps the next collection ahead and nearer.
C15_CollectionKeepsHappening == [][C15_Step]_vars

\* C16: between calls the live-object counter is never above the collection
\* threshold.
C16_CounterWithinThreshold ==
    vm.numObjects <= vm.maxObjects

\* Every root slot in use and the head and tail of every listed pair refer
\* to a node of the allocation list, whose storage is allocated.
NoDangling(v, h) ==
    LET listed == Range(AllocList(v, h))
    IN  /\ listed \subseteq Allocated(h)
        /\ \A i \in 0..(v.stackSize - 1) : Slot(v.stack, i) \in listed
        /\ \A a \in listed :
              h[a].type = OBJ_PAIR => h[a].head \in listed /\ h[a].tail \in listed

\* C17: no live reference dangles.  Before and after every call that returns,
\* every root slot below stackSize and the head and tail of every pair of the
\* allocation list refer to an object of the list; and the call freed no
\* object that was reachable from the root stack, so a reference never outlives
\* its object to name a later one at the same address.
C17_Step ==
    /\ NoDangling(vm, heap)
    /\ exit' = Running =>
          /\ NoDangling(vm', heap')
          /\ call'.freed \cap Reachable(vm, heap) = {}

\* C17: every step of a running VM keeps every live reference valid.
C17_NoDanglingReference == [][C17_Step]_vars

\* a collection has freed an object and kept a rooted pair whose head no
\* root slot holds
C17_Witness ==
    /\ exit = Running
    /\ call.gcRan
    /\ call.freed # {}
    /\ \E p \in Roots(vm) :
          /\ heap[p].type = OBJ_PAIR
          /\ heap[p].head \notin Roots(vm)
          /\ heap[p].head \in Range(AllocList(vm, heap))

\* The allocation list of v in h is NULL-terminated and acyclic, holds no
\* object twice, and has numObjects nodes.
ListCounted(v, h) ==
    LET list == AllocList(v, h)
    IN  /\ IF list = <<>> THEN v.firstObject = NULL
           ELSE h[list[Len(list)]].next = NULL
        /\ Cardinality(Range(list)) = Len(list)
        /\ v.numObjects = Len(list)

\* C18: numObjects is the number of nodes of the allocation list, which is
\* acyclic, NULL-terminated and without repetition, before and after every
\* call; an allocation raises the counter and the list by one node, a sweep
\* lowers both by the number of objects it freed, and nothing else moves them.
C18_Step ==
    LET allocs == IF call'.op \in AllocOps THEN 1 ELSE 0
        frees == Cardinality(call'.freed)
    IN  /\ ListCounted(vm, heap)
        /\ ListCounted(vm', heap')
        /\ vm'.numObjects = vm.numObjects - frees + allocs
        /\ Len(AllocList(vm', heap')) = Len(AllocList(vm, heap)) - frees + allocs
        /\ call'.freed \subseteq Range(AllocList(vm, heap))
        /\ call'.freed \cap Range(AllocList(vm', heap')) \subseteq
              (IF allocs = 1 THEN {vm'.firstObject} ELSE {})
        /\ IF call'.gcRan
           THEN call'.live = vm.numObjects - frees
           ELSE frees = 0

\* C18: every step keeps the counter equal to the length of the list.
C18_CounterIsListLength == [][C18_Step]_vars

\* an allocation whose collection freed objects and kept others
C18_Witness ==
    /\ call.op \in AllocOps
    /\ call.gcRan
    /\ call.freed # {}
    /\ call.live > 0
    /\ vm.numObjects = call.live + 1

====
